---- MODULE Spec2Model ----
(***************************************************************************)
(* Maintenance scripts of slskdn: the checkbox updater                     *)
(* (update_task_checkboxes.py), the fixture fetcher (fetch_media.py) and   *)
(* the task validator (validate_tasks.py).  Each script is a sequential    *)
(* program; each has its own specification over the shared variables.      *)
(***************************************************************************)
EXTENDS Integers, Sequences, FiniteSets, TLC

VARIABLES
    \* ---- update_task_checkboxes.py
    files,           \* the markdown files on disk: file name -> sequence of lines
    results,         \* task_validation_results.json: sequence of validation results
    before,          \* history: files as they were when the last run of main began
    run,             \* number of completed runs of main
    total_checked,   \* main's total_checked of the last run
    updated_files,   \* main's updated_files of the last run
    \* ---- fetch_media.py
    manifest,        \* the download_via_script entries of manifest.json, in order
    fs,              \* the fixture tree: path -> [exists, data]
    fpc,             \* where the fetcher is: "main", "download", "done", "aborted"
    idx,             \* 1-based position in manifest of the entry main is at
    attempt,         \* download's attempt counter
    outcomes,        \* history: outcome of each attempt of the current download call
    log,             \* history: one record per download call of the current run
    frun,            \* number of runs of the fetcher that have ended
    prevOK,          \* history: the previous run of the fetcher returned 0
    \* ---- validate_tasks.py, main's validation loop
    all_tasks,       \* the extracted task records, in extraction order
    validated_tasks, \* the validation results appended so far
    vpc,             \* where the loop is: "commit", "grep", "status", "done", "aborted"
    vi,              \* 1-based position in all_tasks of the task being validated
    has_commit,      \* validation['has_commit'] of the current task
    has_code,        \* the results dict of check_code_exists for the current task
    kw,              \* 1-based position of the next keyword to search
    gitres,          \* history: what the commit-log query of the current task did
    searched,        \* history: what each keyword search of the current task did
    \* ---- validate_tasks.py, extract_task_id
    twords,          \* the words the text was written with
    text,            \* the text given to extract_task_id, as characters
    task_id,         \* what extract_task_id returned
    epc              \* "input" before the call, "done" after

uvars == <<files, results, before, run, total_checked, updated_files>>
fvars == <<manifest, fs, fpc, idx, attempt, outcomes, log, frun, prevOK>>
vvars == <<all_tasks, validated_tasks, vpc, vi, has_commit, has_code, kw, gitres, searched>>
evars == <<twords, text, task_id, epc>>
vars == <<uvars, fvars, vvars, evars>>

\* ------------------------------------------------------------------------
\* Bounds of the model
MaxLines == 2        \* lines per markdown file
MaxTasks == 2        \* validation results in the results file
MaxRuns == 2         \* runs of the updater on the same results file
MaxManifest == 2     \* entries in the manifest
MaxFetchRuns == 2    \* runs of the fetcher
MaxVTasks == 2       \* extracted tasks given to the validator
MaxWords == 2        \* words in a text given to extract_task_id

\* ------------------------------------------------------------------------
\* Text.  A line is a sequence of characters.
Unchecked == <<"[", " ", "]">>
Checked == <<"[", "x", "]">>
LineU == <<"-", "[", " ", "]", "a">>                    \* "-[ ]a"
LineUU == <<"-", "[", " ", "]", "[", " ", "]">>         \* "-[ ][ ]"
LineX == <<"-", "[", "x", "]", "a">>                    \* "-[x]a"
LineSet == {LineU, LineUU, LineX}

\* positions at which '[ ]' occurs in line
BoxAt(line) ==
    {i \in 1..(Len(line) - 2) : SubSeq(line, i, i + 2) = Unchecked}

\* '[ ]' in line
Contains(line) == BoxAt(line) # {}

Min(S) == CHOOSE x \in S : \A y \in S : x <= y
Max(S) == CHOOSE x \in S : \A y \in S : x >= y

\* line.replace('[ ]', '[x]', 1)
ReplaceFirst(line) ==
    IF ~Contains(line) THEN line
    ELSE LET i == Min(BoxAt(line))
         IN SubSeq(line, 1, i - 1) \o Checked \o SubSeq(line, i + 3, Len(line))

\* Python list indexing lst[n]: negative n counts from the end; outside
\* -len..len-1 it raises IndexError.
PyIndexOK(n, len) == n >= 0 - len /\ n < len
PyPos(n, len) == IF n >= 0 THEN n + 1 ELSE len + n + 1

\* ------------------------------------------------------------------------
\* update_task_checkboxes.py
Files == {"a.md", "b.md"}
\* recorded line numbers: in the file, one past its end, and below 1
LineNums == (0 - 1)..(MaxLines + 1)
TaskTypes == {"checkbox", "todo"}
Statuses == {"likely_complete", "pending"}

SeqsUpTo(S, n) == UNION {[1..k -> S] : k \in 0..n}

Contents == SeqsUpTo(LineSet, MaxLines)

\* a validation result, reduced to the fields the updater reads
ValidationResults ==
    {[task |-> [file |-> f, line |-> l, type |-> t], status |-> s] :
        f \in Files, l \in LineNums, t \in TaskTypes, s \in Statuses}

\* the body of the loop over tasks_to_check (lines 17-32); acc is the local
\* state: lines, modified, updated_count, and whether an exception was raised
StepTask(acc, task_info) ==
    IF task_info.type # "checkbox" THEN acc
    ELSE LET line_num == task_info.line - 1
             n == Len(acc.lines)
         IN IF ~(line_num < n) THEN acc
            ELSE IF ~PyIndexOK(line_num, n) THEN [acc EXCEPT !.raised = TRUE]
            ELSE LET p == PyPos(line_num, n)
                     original_line == acc.lines[p]
                     new_line == ReplaceFirst(original_line)
                 IN IF Contains(original_line) /\ new_line # original_line
                    THEN [acc EXCEPT !.lines[p] = new_line,
                                     !.modified = TRUE,
                                     !.updated_count = @ + 1]
                    ELSE acc

RECURSIVE ForTasks(_, _)
ForTasks(acc, tasks) ==
    IF tasks = <<>> \/ acc.raised THEN acc
    ELSE ForTasks(StepTask(acc, Head(tasks)), Tail(tasks))

\* update_file_checkboxes(filepath, tasks_to_check) on a file holding content:
\* the content left on disk and the returned count
update_file_checkboxes(content, tasks_to_check) ==
    LET acc == ForTasks([lines |-> content, modified |-> FALSE,
                         updated_count |-> 0, raised |-> FALSE],
                        tasks_to_check)
    IN IF ~acc.raised /\ acc.modified
       THEN [content |-> acc.lines, count |-> acc.updated_count]
       ELSE [content |-> content, count |-> 0]

\* main, lines 47-54: tasks_by_file as the sequence of its (file, tasks) items
\* in insertion order
RECURSIVE GroupByFile(_, _)
GroupByFile(loaded, tasks_by_file) ==
    IF loaded = <<>> THEN tasks_by_file
    ELSE LET task_data == Head(loaded)
             filepath == task_data.task.file
             at == {i \in 1..Len(tasks_by_file) : tasks_by_file[i].file = filepath}
             next ==
                 IF task_data.status # "likely_complete" THEN tasks_by_file
                 ELSE IF at = {}
                      THEN Append(tasks_by_file,
                                  [file |-> filepath, tasks |-> <<task_data.task>>])
                      ELSE LET i == Min(at)
                           IN [tasks_by_file EXCEPT ![i].tasks = Append(@, task_data.task)]
         IN GroupByFile(Tail(loaded), next)

\* main, lines 58-64: the loop over tasks_by_file.items(); st is the local
\* state: the files on disk, updated_files, total_checked
RECURSIVE ForFiles(_, _)
ForFiles(st, items) ==
    IF items = <<>> THEN st
    ELSE LET item == Head(items)
             r == update_file_checkboxes(st.files[item.file], item.tasks)
             next == IF r.count > 0
                     THEN [files |-> [st.files EXCEPT ![item.file] = r.content],
                           updated_files |-> st.updated_files + 1,
                           total_checked |-> st.total_checked + r.count]
                     ELSE [st EXCEPT !.files[item.file] = r.content]
         IN ForFiles(next, Tail(items))

UpdaterInit ==
    /\ files \in [Files -> Contents]
    /\ results \in SeqsUpTo(ValidationResults, MaxTasks)
    /\ before = files
    /\ run = 0
    /\ total_checked = 0
    /\ updated_files = 0

\* one run of main() of update_task_checkboxes.py
UpdaterMain ==
    /\ run < MaxRuns
    /\ LET st == ForFiles([files |-> files, updated_files |-> 0, total_checked |-> 0],
                          GroupByFile(results, <<>>))
       IN /\ files' = st.files
          /\ updated_files' = st.updated_files
          /\ total_checked' = st.total_checked
    /\ before' = files
    /\ run' = run + 1
    /\ UNCHANGED <<results, fvars, vvars, evars>>

UpdaterIdle ==
    /\ files = [f \in Files |-> <<>>]
    /\ results = <<>>
    /\ before = files
    /\ run = 0
    /\ total_checked = 0
    /\ updated_files = 0

\* ------------------------------------------------------------------------
\* fetch_media.py
DefaultRetries == 3
Paths == {"a.bin", "b.bin"}
Absent == [exists |-> FALSE, data |-> <<>>]
EmptyFile == [exists |-> TRUE, data |-> <<>>]
OldFile == [exists |-> TRUE, data |-> <<"old">>]
\* the response bodies a server may send with a successful reply
Bodies == {<<>>, <<"new">>}

\* out_path.exists() and out_path.stat().st_size > 0
Present(f) == f.exists /\ Len(f.data) > 0

\* the test of line 29 written with > for >=: one attempt too many
ExhaustedOffByOne(n, retries) == n > retries

\* "if attempt >= retries: raise"
Exhausted(n, retries) == n >= retries

FetcherInit ==
    /\ manifest \in SeqsUpTo(Paths, MaxManifest)
    /\ fs \in [Paths -> {Absent, EmptyFile, OldFile}]
    /\ fpc = "main"
    /\ idx = 1
    /\ attempt = 0
    /\ outcomes = <<>>
    /\ log = <<>>
    /\ frun = 0
    /\ prevOK = FALSE

FetcherIdle ==
    /\ manifest = <<>>
    /\ fs = [p \in Paths |-> Absent]
    /\ fpc = "idle"
    /\ idx = 1
    /\ attempt = 0
    /\ outcomes = <<>>
    /\ log = <<>>
    /\ frun = 0
    /\ prevOK = FALSE

\* main calls download(url, out) for the entry at idx and the destination is
\* already present and non-empty: download returns at once (lines 14-17)
DownloadSkip ==
    /\ fpc = "main"
    /\ idx <= Len(manifest)
    /\ Present(fs[manifest[idx]])
    /\ log' = Append(log, [path |-> manifest[idx], present |-> TRUE, calls |-> 0,
                           pre |-> fs[manifest[idx]]])
    /\ idx' = idx + 1
    /\ attempt' = 0
    /\ outcomes' = <<>>
    /\ UNCHANGED <<manifest, fs, fpc, frun, prevOK, uvars, vvars, evars>>

\* main calls download(url, out) and the destination is missing or empty:
\* download enters its retry loop (line 18)
DownloadStart ==
    /\ fpc = "main"
    /\ idx <= Len(manifest)
    /\ ~Present(fs[manifest[idx]])
    /\ fpc' = "download"
    /\ attempt' = 0
    /\ outcomes' = <<>>
    /\ log' = Append(log, [path |-> manifest[idx], present |-> FALSE, calls |-> 0,
                           pre |-> fs[manifest[idx]]])
    /\ UNCHANGED <<manifest, fs, idx, frun, prevOK, uvars, vvars, evars>>

\* one pass of the loop (lines 20-27): urlopen and read succeed with body data,
\* the body is written and download returns
AttemptOK ==
    /\ fpc = "download"
    /\ \E data \in Bodies :
          fs' = [fs EXCEPT ![manifest[idx]] = [exists |-> TRUE, data |-> data]]
    /\ attempt' = attempt + 1
    /\ outcomes' = Append(outcomes, "ok")
    /\ log' = [log EXCEPT ![Len(log)].calls = @ + 1]
    /\ fpc' = "main"
    /\ idx' = idx + 1
    /\ UNCHANGED <<manifest, frun, prevOK, uvars, vvars, evars>>

\* one pass of the loop (lines 20-33): HTTPError, URLError or TimeoutError;
\* re-raised when the attempts are used up, else sleep 2 * attempt and loop
AttemptTransient ==
    /\ fpc = "download"
    /\ attempt' = attempt + 1
    /\ outcomes' = Append(outcomes, "transient")
    /\ log' = [log EXCEPT ![Len(log)].calls = @ + 1]
    /\ fpc' = IF Exhausted(attempt', DefaultRetries) THEN "aborted" ELSE "download"
    /\ frun' = IF Exhausted(attempt', DefaultRetries) THEN frun + 1 ELSE frun
    /\ UNCHANGED <<manifest, fs, idx, prevOK, uvars, vvars, evars>>

\* one pass of the loop raising anything else (a reset connection while
\* reading the body, an OSError of write_bytes): not caught, main dies
AttemptOther ==
    /\ fpc = "download"
    /\ attempt' = attempt + 1
    /\ outcomes' = Append(outcomes, "other")
    /\ log' = [log EXCEPT ![Len(log)].calls = @ + 1]
    /\ fpc' = "aborted"
    /\ frun' = frun + 1
    /\ UNCHANGED <<manifest, fs, idx, prevOK, uvars, vvars, evars>>

\* main, lines 43-44: every entry done, main returns 0
MainReturn ==
    /\ fpc = "main"
    /\ idx > Len(manifest)
    /\ fpc' = "done"
    /\ frun' = frun + 1
    /\ UNCHANGED <<manifest, fs, idx, attempt, outcomes, log, prevOK, uvars, vvars, evars>>

\* the operator runs the script again
FetcherRerun ==
    /\ fpc \in {"done", "aborted"}
    /\ frun < MaxFetchRuns
    /\ prevOK' = (fpc = "done")
    /\ fpc' = "main"
    /\ idx' = 1
    /\ attempt' = 0
    /\ outcomes' = <<>>
    /\ log' = <<>>
    /\ UNCHANGED <<manifest, fs, frun, uvars, vvars, evars>>

FetcherNext ==
    \/ DownloadSkip
    \/ DownloadStart
    \/ AttemptOK
    \/ AttemptTransient
    \/ AttemptOther
    \/ MainReturn
    \/ FetcherRerun

\* ------------------------------------------------------------------------
\* validate_tasks.py: main's validation loop, check_git_commits,
\* check_code_exists
NoId == ""           \* task_id None: no identifier was extracted
TaskIds == {NoId, "H-08"}
TaskTexts == {<<"fix", "bug">>,
              <<"implement", "retry">>,
              <<"cache", "proxy">>,
              <<"retry", "queue", "cache", "proxy">>}
Tasks == {[task_id |-> i, text |-> t] : i \in TaskIds, t \in TaskTexts}

stop_words == {"this", "that", "with", "from", "have", "will", "should", "would",
               "could", "implement", "add", "create", "update", "fix", "remove",
               "delete", "change"}

\* re.findall(r'\b[a-zA-Z]{5,}\b', ...) on a text of lower-case alphabetic words
IsKeyword(w) == Len(w) >= 5
IsImportant(w) == w \notin stop_words /\ Len(w) > 4
\* important_keywords (lines 74-75)
important_keywords(task_text) ==
    LET kws == SelectSeq(SelectSeq(task_text, IsKeyword), IsImportant)
    IN SubSeq(kws, 1, IF Len(kws) < 3 THEN Len(kws) ELSE 3)

\* What a subprocess.run call does: it raises (TimeoutExpired, OSError) or
\* returns a return code and its output, here a sequence of words.
NoQuery == [made |-> FALSE, raised |-> FALSE, returncode |-> 0, stdout |-> <<>>]
\* git log --all --grep <id> --oneline: it times out, finds nothing, fails
\* (its message goes to stderr, stdout stays empty), or prints the summary
\* lines of the matching commits
GitResults(id) ==
    {[made |-> TRUE, raised |-> TRUE, returncode |-> 0, stdout |-> <<>>],
     [made |-> TRUE, raised |-> FALSE, returncode |-> 0, stdout |-> <<>>],
     [made |-> TRUE, raised |-> FALSE, returncode |-> 128, stdout |-> <<>>],
     [made |-> TRUE, raised |-> FALSE, returncode |-> 0,
      stdout |-> <<"abc1234", id, "done">>],
     [made |-> TRUE, raised |-> FALSE, returncode |-> 0,
      stdout |-> <<"abc1234", id, "fix", "ERROR", "path">>]}
\* git grep -i <keyword> -- *.cs ...
GrepResults ==
    {[raised |-> TRUE, returncode |-> 0, stdout |-> <<>>],
     [raised |-> FALSE, returncode |-> 0, stdout |-> <<"src/a.cs:1:", "match">>],
     [raised |-> FALSE, returncode |-> 1, stdout |-> <<>>],
     [raised |-> FALSE, returncode |-> 128, stdout |-> <<>>]}

\* the words that hold the substring 'ERROR'
ErrorWords == {"ERROR", "ERROR:"}
\* 'ERROR' in output
HasERROR(output) == \E i \in 1..Len(output) : output[i] \in ErrorWords

\* run_git_command without its try/except: the exception reaches the caller
RunGitCommandNoCatch(res) ==
    [raised |-> res.raised, value |-> res.stdout]

\* run_git_command(cmd) when subprocess.run does res: the returned string, and
\* whether an exception leaves the function
run_git_command(res) ==
    [raised |-> FALSE,
     value |-> IF res.raised THEN <<"ERROR:", "timeout">> ELSE res.stdout]

\* check_git_commits(task_id) when the query does res
check_git_commits(id, res) ==
    IF id = NoId THEN [raised |-> FALSE, value |-> FALSE]
    ELSE LET output == run_git_command(res)
         IN [raised |-> output.raised,
             value |-> output.value # <<>> /\ ~HasERROR(output.value)]

NoCode == [has_implementation |-> FALSE, has_tests |-> FALSE, has_config |-> FALSE]
\* any(code_check.values())
AnyValues(code_check) ==
    code_check.has_implementation \/ code_check.has_tests \/ code_check.has_config

\* lines 190-194
Status(commit, code_check) ==
    IF commit \/ AnyValues(code_check) THEN "likely_complete" ELSE "pending"

\* result.returncode == 0 and result.stdout.strip()
IsMatch(res) == ~res.raised /\ res.returncode = 0 /\ res.stdout # <<>>

ValidatorInit ==
    /\ all_tasks \in SeqsUpTo(Tasks, MaxVTasks)
    /\ validated_tasks = <<>>
    /\ vpc = IF all_tasks = <<>> THEN "done" ELSE "commit"
    /\ vi = 1
    /\ has_commit = FALSE
    /\ has_code = NoCode
    /\ kw = 1
    /\ gitres = NoQuery
    /\ searched = <<>>

ValidatorIdle ==
    /\ all_tasks = <<>>
    /\ validated_tasks = <<>>
    /\ vpc = "idle"
    /\ vi = 1
    /\ has_commit = FALSE
    /\ has_code = NoCode
    /\ kw = 1
    /\ gitres = NoQuery
    /\ searched = <<>>

\* check_code_exists up to its loop (lines 65-78) for the task at vi
CodeCheckBegin ==
    /\ has_code' = NoCode
    /\ kw' = 1
    /\ searched' = <<>>
    /\ vpc' = IF important_keywords(all_tasks[vi].text) = <<>> THEN "status" ELSE "grep"

\* lines 175-184 for a task without identifier: no commit query is made
CommitSkip ==
    /\ vpc = "commit"
    /\ all_tasks[vi].task_id = NoId
    /\ has_commit' = FALSE
    /\ gitres' = NoQuery
    /\ CodeCheckBegin
    /\ UNCHANGED <<all_tasks, validated_tasks, vi, uvars, fvars, evars>>

\* lines 175-184 for a task with an identifier: check_git_commits runs the query
CommitQuery ==
    /\ vpc = "commit"
    /\ all_tasks[vi].task_id # NoId
    /\ \E res \in GitResults(all_tasks[vi].task_id) :
          LET r == check_git_commits(all_tasks[vi].task_id, res)
          IN /\ gitres' = res
             /\ has_commit' = r.value
             /\ IF r.raised
                THEN /\ vpc' = "aborted"
                     /\ UNCHANGED <<has_code, kw, searched>>
                ELSE CodeCheckBegin
    /\ UNCHANGED <<all_tasks, validated_tasks, vi, uvars, fvars, evars>>

\* one pass of the loop over important_keywords (lines 82-95): the search of
\* keyword kw; an exception leaves the loop through "except: pass"
GrepKeyword ==
    /\ vpc = "grep"
    /\ \E res \in GrepResults :
          /\ searched' = Append(searched, res)
          /\ IF res.raised
             THEN /\ vpc' = "status"
                  /\ UNCHANGED <<has_code, kw>>
             ELSE IF IsMatch(res)
             THEN /\ has_code' = [has_code EXCEPT !.has_implementation = TRUE]
                  /\ vpc' = "status"
                  /\ UNCHANGED kw
             ELSE /\ kw' = kw + 1
                  /\ vpc' = IF kw + 1 > Len(important_keywords(all_tasks[vi].text))
                            THEN "status" ELSE "grep"
                  /\ UNCHANGED has_code
    /\ UNCHANGED <<all_tasks, validated_tasks, vi, has_commit, gitres, uvars, fvars, evars>>

\* lines 187-196: the status is set and the validation appended
DetermineStatus ==
    /\ vpc = "status"
    /\ validated_tasks' = Append(validated_tasks,
                                 [task |-> all_tasks[vi],
                                  has_commit |-> has_commit,
                                  has_code |-> has_code,
                                  status |-> Status(has_commit, has_code)])
    /\ vi' = vi + 1
    /\ vpc' = IF vi + 1 > Len(all_tasks) THEN "done" ELSE "commit"
    /\ UNCHANGED <<all_tasks, has_commit, has_code, kw, gitres, searched,
                   uvars, fvars, evars>>

ValidatorNext ==
    \/ CommitSkip
    \/ CommitQuery
    \/ GrepKeyword
    \/ DetermineStatus

\* ------------------------------------------------------------------------
\* validate_tasks.py: extract_task_id.  A text is a sequence of characters.
Digits == {"0", "1", "3", "8"}
UpperLetters == {"A", "B", "F", "H", "K", "S", "T"}
LowerLetters == {"f", "h", "i", "s", "t", "x"}
Letters == UpperLetters \cup LowerLetters

\* str.upper() on one character
Upper(c) ==
    CASE c = "f" -> "F"
      [] c = "h" -> "H"
      [] c = "i" -> "I"
      [] c = "s" -> "S"
      [] c = "t" -> "T"
      [] c = "x" -> "X"
      [] OTHER -> c

UpperSeq(cs) == [i \in 1..Len(cs) |-> Upper(cs[i])]

\* the character classes of the patterns, under re.IGNORECASE
InClass(c, cls) ==
    CASE cls = "w" -> c \in Letters \cup Digits \cup {"_"}
      [] cls = "d" -> c \in Digits
      [] cls = "A-Z" -> c \in Letters

\* \b at pos, the position of the next character to read
Boundary(t, pos) ==
    LET left == pos > 1 /\ InClass(t[pos - 1], "w")
        right == pos <= Len(t) /\ InClass(t[pos], "w")
    IN left # right

B == [k |-> "b", c |-> ""]
Lit(c) == [k |-> "lit", c |-> c]
Plus(cls) == [k |-> "plus", c |-> cls]

\* the ordered list of patterns (lines 43-49)
patterns ==
    << <<B, Lit("T"), Lit("-"), Plus("w"), Lit("-"), Plus("d"), B>>,
       <<B, Lit("H"), Lit("-"), Plus("d"), B>>,
       <<B, Lit("S"), Lit("F"), Lit("-"), Plus("d"), B>>,
       <<B, Lit("T"), Lit("A"), Lit("S"), Lit("K"), Lit("-"), Plus("d"), B>>,
       <<B, Lit("#"), Plus("A-Z"), Lit("-"), Plus("d"), B>> >>

\* the positions at which a match of pat[i..] that starts at pos can end
RECURSIVE Ends(_, _, _, _)
Ends(pat, i, t, pos) ==
    IF i > Len(pat) THEN {pos}
    ELSE CASE pat[i].k = "b" ->
                 IF Boundary(t, pos) THEN Ends(pat, i + 1, t, pos) ELSE {}
           [] pat[i].k = "lit" ->
                 IF pos <= Len(t) /\ Upper(t[pos]) = Upper(pat[i].c)
                 THEN Ends(pat, i + 1, t, pos + 1) ELSE {}
           [] pat[i].k = "plus" ->
                 UNION {Ends(pat, i + 1, t, q) :
                          q \in {q \in (pos + 1)..(Len(t) + 1) :
                                   \A j \in pos..(q - 1) : InClass(t[j], pat[i].c)}}

\* re.search(pattern, text, re.IGNORECASE): group(1) of the leftmost match
\* (the repetitions are greedy), or <<>> when there is none
Search(pat, t) ==
    LET starts == {s \in 1..(Len(t) + 1) : Ends(pat, 1, t, s) # {}}
    IN IF starts = {} THEN <<>>
       ELSE LET s == Min(starts)
            IN SubSeq(t, s, Max(Ends(pat, 1, t, s)) - 1)

\* extract_task_id(text); None is <<>>
extract_task_id(t) ==
    LET hits == {n \in 1..Len(patterns) : Search(patterns[n], t) # <<>>}
    IN IF hits = {} THEN <<>> ELSE UpperSeq(Search(patterns[Min(hits)], t))
 
\* the words the texts are written with
W_TSF03 == <<"T", "-", "S", "F", "0", "3">>
W_H08 == <<"H", "-", "0", "8">>
W_h08 == <<"h", "-", "0", "8">>
W_TSF_03 == <<"T", "-", "S", "F", "-", "0", "3">>
W_SF01 == <<"S", "F", "-", "0", "1">>
W_TASK1 == <<"T", "A", "S", "K", "-", "1">>
W_hashAB1 == <<"x", "#", "A", "B", "-", "1">>
W_fix == <<"f", "i", "x">>
IdWords == {W_TSF03, W_H08, W_h08, W_TSF_03, W_SF01, W_TASK1, W_hashAB1}
WordSet == IdWords \cup {W_fix}

\* the words joined by single spaces
RECURSIVE Join(_)
Join(ws) ==
    IF ws = <<>> THEN <<>>
    ELSE IF Len(ws) = 1 THEN ws[1]
    ELSE ws[1] \o <<" ">> \o Join(Tail(ws))

ExtractorInit ==
    /\ twords \in SeqsUpTo(WordSet, MaxWords)
    /\ text = Join(twords)
    /\ task_id = <<>>
    /\ epc = "input"

ExtractorIdle ==
    /\ twords = <<>>
    /\ text = <<>>
    /\ task_id = <<>>
    /\ epc = "idle"

\* the call extract_task_id(text)
ExtractTaskId ==
    /\ epc = "input"
    /\ task_id' = extract_task_id(text)
    /\ epc' = "done"
    /\ UNCHANGED <<twords, text, uvars, fvars, vvars>>

ExtractorNext == ExtractTaskId

\* ------------------------------------------------------------------------
\* The specifications, one per script
UpdaterNext == UpdaterMain
UpdaterStart == UpdaterInit /\ FetcherIdle /\ ValidatorIdle /\ ExtractorIdle
FetcherStart == FetcherInit /\ UpdaterIdle /\ ValidatorIdle /\ ExtractorIdle
ValidatorStart == ValidatorInit /\ UpdaterIdle /\ FetcherIdle /\ ExtractorIdle
ExtractorStart == ExtractorInit /\ UpdaterIdle /\ FetcherIdle /\ ValidatorIdle
SpecUpdater == UpdaterStart /\ [][UpdaterNext]_vars
SpecFetcher == FetcherStart /\ [][FetcherNext]_vars
SpecValidator == ValidatorStart /\ [][ValidatorNext]_vars
SpecExtractor == ExtractorStart /\ [][ExtractorNext]_vars

\* ------------------------------------------------------------------------
\* Properties of the updater
\* the records main hands to update_file_checkboxes(f, ...) that it acts on:
\* status likely_complete, type checkbox
Eligible(f) ==
    {i \in 1..Len(results) : /\ results[i].status = "likely_complete"
                             /\ results[i].task.type = "checkbox"
                             /\ results[i].task.file = f}
NamedBy(f, p) == {i \in Eligible(f) : results[i].task.line = p}

RECURSIVE ReplaceTimes(_, _)
ReplaceTimes(line, n) == IF n = 0 THEN line ELSE ReplaceTimes(ReplaceFirst(line), n - 1)

\* C1: after a run of the updater, a line named by an eligible record and
\* holding '[ ]' has had its first '[ ]' turned into '[x]' (once per record
\* naming it), and every other line is as it was before the run.
C1_FrameEffect ==
    run >= 1 =>
        \A f \in Files :
            /\ Len(files[f]) = Len(before[f])
            /\ \A p \in 1..Len(before[f]) :
                   files[f][p] = ReplaceTimes(before[f][p], Cardinality(NamedBy(f, p)))

\* C10: after a run, a line differs from what it was before the run only if an
\* eligible record names exactly that 1-based position; records naming no
\* existing line change nothing.
C10_OnlyRecordedLine ==
    run >= 1 =>
        \A f \in Files :
            /\ Len(files[f]) = Len(before[f])
            /\ \A p \in 1..Len(before[f]) :
                   files[f][p] # before[f][p] => NamedBy(f, p) # {}

\* every record carries a line number as the validator writes them (1-based)
LinesFromOne == \A i \in 1..Len(results) : results[i].task.line >= 1

\* C2 as stated: a second (or later) run on the same results changes no file
\* and reports zero flipped checkboxes (here already for results whose line
\* numbers are all 1-based).
C2_Idempotent ==
    (run >= 2 /\ LinesFromOne) =>
        (files = before /\ total_checked = 0 /\ updated_files = 0)

\* ------------------------------------------------------------------------
\* Properties of the fetcher
Last(q) == q[Len(q)]

\* C3: attempt k+1 of a download call is made only after attempt k failed
\* with a transient error and k < retries; a call that succeeds (after two
\* failures, say) has written the file with one network call per attempt; a
\* call whose every attempt fails transiently raises after exactly retries
\* attempts; and once a call has raised, main has called download for no later
\* entry of the manifest.
C3_BoundedRetry ==
    /\ attempt = Len(outcomes)
    /\ \A k \in 1..(Len(outcomes) - 1) :
          outcomes[k] = "transient" /\ k < DefaultRetries
    /\ (outcomes # <<>> /\ Last(outcomes) = "ok") =>
          /\ fs[Last(log).path].exists
          /\ Last(log).calls = Len(outcomes)
    /\ (fpc = "aborted" /\ Last(outcomes) = "transient") =>
          Len(outcomes) = DefaultRetries
    /\ (outcomes # <<>> /\ Last(outcomes) # "ok" /\ Len(outcomes) >= DefaultRetries) =>
          fpc = "aborted"
    /\ fpc = "aborted" => (Len(log) = idx /\ idx <= Len(manifest))

\* a download that failed twice and then succeeded, its file written
C3_Witness ==
    /\ outcomes = <<"transient", "transient", "ok">>
    /\ attempt = 3
    /\ fpc = "main"
    /\ fs[Last(log).path] = [exists |-> TRUE, data |-> <<"new">>]

\* C4: a download call that finds its destination present and non-empty
\* makes no network call and leaves the content as it was; and a run that
\* follows a run which returned 0 makes no network call at all.
C4_NoNetworkWhenPresent ==
    /\ \A i \in 1..Len(log) :
          log[i].present => (log[i].calls = 0 /\ fs[log[i].path] = log[i].pre)
    /\ prevOK => (fpc # "download" /\ \A i \in 1..Len(log) : log[i].calls = 0)

\* C5: every download call that has returned normally left its destination
\* present and non-empty.
C5_NonEmptyAfterReturn ==
    \A i \in 1..Len(log) : i < idx => Present(fs[log[i].path])

\* ------------------------------------------------------------------------
\* Properties of the validator
Failed(res) == res.raised \/ res.returncode # 0

\* C6: no lookup failure aborts the loop; the results are one per task, in
\* extraction order; each status is likely_complete when the commit signal or
\* the code signal is true and pending otherwise; a failed commit query leaves
\* the commit signal false and searches that all failed leave the code signal
\* false.
C6_ValidatorCompletes ==
    /\ vpc # "aborted"
    /\ Len(validated_tasks) <= Len(all_tasks)
    /\ vpc = "done" => Len(validated_tasks) = Len(all_tasks)
    /\ \A i \in 1..Len(validated_tasks) :
          LET v == validated_tasks[i]
          IN /\ v.task = all_tasks[i]
             /\ v.status \in {"likely_complete", "pending"}
             /\ v.status = "likely_complete" <=>
                    (v.has_commit \/ v.has_code.has_implementation)
    /\ vpc = "status" =>
          /\ Failed(gitres) => ~has_commit
          /\ (\A k \in 1..Len(searched) : Failed(searched[k])) =>
                 ~has_code.has_implementation

\* two tasks validated, the first likely_complete, the second pending after
\* its commit query and its keyword search both timed out
C6_Witness ==
    /\ vpc = "done"
    /\ Len(validated_tasks) = 2
    /\ validated_tasks[1].status = "likely_complete"
    /\ validated_tasks[2].status = "pending"
    /\ gitres.made /\ gitres.raised
    /\ searched # <<>> /\ Last(searched).raised

\* C7: for a task with an identifier, has_commit is true whenever the query
\* completed and returned at least one summary line, whatever the line says,
\* and false only when the query returned nothing or failed.
C7_AnyMatchIsEvidence ==
    (vpc = "status" /\ gitres.made) =>
        /\ (~gitres.raised /\ gitres.stdout # <<>>) => has_commit
        /\ ~has_commit => (gitres.raised \/ gitres.stdout = <<>>)

\* C9: when check_code_exists returns, no search before the last one matched,
\* the searches stopped before the last keyword only at a match (a failed or
\* timed-out search does not end them), and has_implementation is true
\* exactly when a searched keyword matched.
C9_KeywordIsolation ==
    vpc = "status" =>
        LET n == Len(searched)
            kws == important_keywords(all_tasks[vi].text)
        IN /\ n <= Len(kws) /\ Len(kws) <= 3
           /\ \A k \in 1..(n - 1) : ~IsMatch(searched[k])
           /\ n < Len(kws) => (n >= 1 /\ IsMatch(searched[n]))
           /\ has_code.has_implementation <=> (\E k \in 1..n : IsMatch(searched[k]))

\* ------------------------------------------------------------------------
\* Properties of extract_task_id
\* w is in the text and every other word of the text is no identifier
OnlyIdWord(w) ==
    /\ \E i \in 1..Len(twords) : twords[i] = w
    /\ \A i \in 1..Len(twords) : twords[i] \in {w, W_fix}

Matching == {n \in 1..Len(patterns) : Search(patterns[n], text) # <<>>}

\* C8: a text with the token T-SF03 yields T-SF03, one with H-08 yields H-08,
\* a text no pattern matches yields no identifier, and otherwise the result is
\* the upper-cased match of the earliest pattern of the list that matches.
C8_ExtractIds ==
    epc = "done" =>
        /\ OnlyIdWord(W_TSF03) => task_id = W_TSF03
        /\ OnlyIdWord(W_H08) => task_id = W_H08
        /\ Matching = {} => task_id = <<>>
        /\ Matching # {} => task_id = UpperSeq(Search(patterns[Min(Matching)], text))
====
